---------------------------- MODULE Spec2Model ----------------------------
(***************************************************************************)
(* Model of the orchestration core of Auto_job_applier_linkedIn:           *)
(*   - the quota scheduler  (src/modules/application_scheduler.py)         *)
(*   - the platform base    (src/modules/platforms/__init__.py)            *)
(*   - the orchestrator     (src/run_auto_applier.py)                      *)
(* Each part has its own specification over the one set of variables; a    *)
(* part's actions leave the other part's variables unchanged.              *)
(***************************************************************************)
EXTENDS Integers, Sequences, FiniteSets, TLC

(***************************************************************************)
(* Bounds of the model (not program constants).                            *)
(***************************************************************************)
\* ticks per second: the clock is observed at sub-second resolution
TicksPerSec == 2
\* the daily limit handed to ApplicationScheduler(platform_limits)
DailyLimit == 2
\* record_application is explored until daily_count reaches MaxCount
MaxCount == 3
\* the last calendar day the clock reaches
MaxDay == 8

(***************************************************************************)
(* Program constants.                                                      *)
(***************************************************************************)
\* application_scheduler.py:83  timedelta(seconds=30)
COOLDOWN_SECONDS == 30
\* application_scheduler.py:76  weekly_count >= 150
LINKEDIN_WEEKLY == 150

None == 0 - 1

\* ------------------------------------------------------------------ time
SecondsPerDay == 24 * 60 * 60
DayTicks == SecondsPerDay * TicksPerSec
CooldownTicks == COOLDOWN_SECONDS * TicksPerSec

\* The first day of the model is a Friday; day 0 of the calendar is a Monday,
\* as datetime.weekday() counts (Monday = 0).
StartDay == 2 + 2
\* the instants of a day at which the clock is observed, in ticks after midnight
Instants == {0, 1, CooldownTicks - 1, CooldownTicks, CooldownTicks + 1}
Times == {d * DayTicks + i : d \in StartDay..MaxDay, i \in Instants}

\* datetime.date() / strftime('%Y-%m-%d') and back
DateOf(t) == t \div DayTicks
\* datetime.weekday()
Weekday(t) == DateOf(t) % 7
\* strftime('%Y-%m-%d %H:%M:%S'): the fraction of a second is dropped
FormatSeconds(t) == t \div TicksPerSec
\* strptime('%Y-%m-%d %H:%M:%S'): an instant on a whole second
ParseSeconds(s) == s * TicksPerSec

VARIABLES
    \* ---- quota scheduler (application_scheduler.py)
    now,              \* datetime.now(), in ticks
    platform_limits,  \* ApplicationScheduler.platform_limits
    state,            \* ApplicationScheduler.state (in memory)
    state_file,       \* config/application_state.json
    proc,             \* "up": an ApplicationScheduler exists; "down": process died
    lastOp,           \* the last call made at the current instant and its result
    checkedDay,       \* per platform: day of the latest reset check (history)
    recAt             \* per platform: exact instant of the latest record (history)

VARIABLES
    \* ---- orchestrator (run_auto_applier.py) and platform base
    creds,            \* per platform: both credentials of PLATFORMS present
    run_non_stop,     \* config.settings.run_non_stop
    use_AI,           \* config.secrets.use_AI (smart_manager exists iff set)
    platform_file,    \* per platform: platform_state_<name>.json
    pc,               \* where main / run_platform stands
    current_platform, \* main's current_platform
    plat,             \* the JobPlatform instance of run_platform
    stats,            \* run_platform's stats
    kw,               \* index of the search term being processed
    left,             \* jobs of the current page not yet iterated
    yielded,          \* candidates listed so far in this run_platform call
    application_history, \* SmartApplicationManager.application_history (ids)
    disk_ok,          \* the platform state files can be written
    \* ---- history variables (observations, not program state)
    startApplied,     \* plat.jobs_applied when run_platform constructed plat
    nSuccess,         \* apply_to_job calls of this run that returned success
    appliedIds,       \* ids for which apply_to_job returned success in this
                      \* run_platform call
    signalled,        \* per platform: DailyLimitError raised since last reset
    limitRaised,      \* DailyLimitError was raised in the current cycle
    lastSel,          \* the selection just made: who was exhausted, who
                      \* eligible, and the platform returned
    unsaved,          \* per platform: the counter that the latest
                      \* _save_platform_state failed to write (0: none, or
                      \* the counter was written or reset since)
    waited,           \* seconds main has slept in buffer() since the latest
                      \* selection
    last_used,        \* the platform of the latest run_platform call
    sigint            \* "delivered" once a KeyboardInterrupt was raised in
                      \* the process

VARIABLES
    \* ---- job screening (JobValidator, JobFilter, screen_company)
    cfg,              \* the configuration dictionary the screeners are built from
    applied_jobs,     \* JobValidator.applied_jobs
    rejected_jobs,    \* JobValidator.rejected_jobs
    blacklisted_companies, \* JobValidator.blacklisted_companies
    flt,              \* the JobFilter instance: its two sets
    call              \* the latest screening call: its input and what it returned

screenVars == <<cfg, applied_jobs, rejected_jobs, blacklisted_companies, flt, call>>

VARIABLES
    \* ---- JobApplier (app/modules/jobs/job_applier.py)
    rc,               \* one retry_click call: where it stands and what it did
    nav               \* one navigate_next call: where it stands and what it did

clickVars == <<rc, nav>>

VARIABLES
    \* ---- MetricsTracker (app/services/tracking/metrics.py)
    applied_file,     \* data/history/applied.csv: missing, or its rows
    tracker,          \* the MetricsTracker of the process, or how its
                      \* construction ended
    \* ---- main.py and app/core/scheduler.py
    app               \* the app's ApplicationScheduler, its config and the
                      \* process around it

trackVars == <<applied_file, tracker>>
appVars == <<app>>

\* the components a scheduler or orchestrator step never touches
otherVars == <<screenVars, clickVars, trackVars, appVars>>

schedVars == <<platform_limits, state, state_file, proc, lastOp,
               checkedDay, recAt>>
orchVars == <<creds, run_non_stop, use_AI, platform_file, pc, current_platform,
              plat, stats, kw, left, yielded, application_history,
              startApplied, nSuccess, appliedIds, signalled,
              limitRaised, lastSel, disk_ok, unsaved, waited, last_used, sigint, otherVars>>
vars == <<now, schedVars, orchVars>>

\* no screener has been built
NoCfg == [bad_words |-> {}, about_company_bad_words |-> {},
          about_company_good_words |-> {}, security_clearance_required |-> FALSE,
          current_experience |-> 0 - 1, did_masters |-> FALSE, use_AI |-> FALSE]
NoCall == [op |-> "none"]
ScreenIdle ==
    /\ cfg = NoCfg
    /\ applied_jobs = {}
    /\ rejected_jobs = {}
    /\ blacklisted_companies = {}
    /\ flt = [blacklisted_companies |-> {}, skipped_jobs |-> {}]
    /\ call = NoCall

\* no JobApplier call is in progress
NoRetry == [pc |-> "idle", retries |-> 0, delay |-> 0, attempt |-> 0,
            clicks |-> 0, slept |-> <<>>, last |-> "none", ret |-> "none"]
NoNav == [pc |-> "idle", page |-> {}, b |-> 1, strategy |-> 1, trail |-> <<>>,
          ret |-> "none"]
ClickIdle == rc = NoRetry /\ nav = NoNav

\* no MetricsTracker has been constructed and there is no history file
NoFile == [kind |-> "missing", rows |-> <<>>]
NoTracker == [up |-> "none", applied_jobs |-> {}, error |-> "none"]
TrackIdle == applied_file = NoFile /\ tracker = NoTracker

\* main.py has not been started
NoApp == [pc |-> "idle", start_date |-> "Any time", date_posted |-> "Any time",
          sort_by |-> "Most recent", run_non_stop |-> FALSE,
          cycle_date_posted |-> FALSE, stop_date_cycle_at_24hr |-> FALSE,
          alternate_sortby |-> FALSE, total_runs |-> 0, error |-> "none",
          exit_status |-> 0 - 1]
AppIdle == app = NoApp

OtherIdle == ScreenIdle /\ ClickIdle /\ TrackIdle /\ AppIdle

PlatformNames == {"linkedin", "indeed"}

NoOp == [op |-> "none", p |-> "", ret |-> FALSE, again |-> FALSE]
EmptyState == [p \in {} |-> 0]
MissingFile == [kind |-> "missing", data |-> EmptyState]
CorruptFile == [kind |-> "corrupt", data |-> EmptyState]
OkFile(s) == [kind |-> "ok", data |-> s]

\* ------------------------------------------- application_scheduler.py
\* _load_state: the file's content if it exists and parses, else a zeroed
\* record per configured platform, dated today.
DefaultState(limits, t) ==
    [p \in DOMAIN limits |->
        [daily_count |-> 0, weekly_count |-> 0, last_apply_time |-> None,
         last_reset_date |-> DateOf(t)]]

load_state(f, limits, t) ==
    IF f.kind = "ok" THEN f.data ELSE DefaultState(limits, t)

\* a variant of the reset check that zeroes the counts but leaves
\* last_reset_date as it was
reset_mut_keeps_date(ps, t) ==
    LET last_reset == ps.last_reset_date
        d1 == IF DateOf(t) > last_reset
                THEN [ps EXCEPT !.daily_count = 0]
                ELSE ps
    IN  IF DateOf(t) > last_reset /\ Weekday(t) = 0
          THEN [d1 EXCEPT !.weekly_count = 0]
          ELSE d1

\* _reset_counts_if_needed, on one platform's record ps at instant t.
\* Both tests read last_reset as parsed before the first assignment.
reset_counts_if_needed(ps, t) ==
    LET last_reset == ps.last_reset_date
        d1 == IF DateOf(t) > last_reset
                THEN [ps EXCEPT !.daily_count = 0, !.last_reset_date = DateOf(t)]
                ELSE ps
    IN  IF DateOf(t) > last_reset /\ Weekday(t) = 0
          THEN [d1 EXCEPT !.weekly_count = 0]
          ELSE d1

\* can_apply's decision on the record ps (after the reset check) at instant t
can_apply_result(p, ps, limits, t) ==
    IF ps.daily_count >= limits[p] THEN FALSE
    ELSE IF p = "linkedin" /\ ps.weekly_count >= LINKEDIN_WEEKLY THEN FALSE
    ELSE IF ps.last_apply_time # None
            /\ t - ParseSeconds(ps.last_apply_time) < CooldownTicks THEN FALSE
    ELSE TRUE

\* record_application's update of one platform's record
recorded(ps, t) ==
    [ps EXCEPT !.daily_count = @ + 1, !.weekly_count = @ + 1,
               !.last_apply_time = FormatSeconds(t)]

InitSched ==
    /\ now = StartDay * DayTicks
    /\ \E p \in PlatformNames : platform_limits = [q \in {p} |-> DailyLimit]
    /\ \E w \in {0, LINKEDIN_WEEKLY - 1}, present \in BOOLEAN :
          state_file = IF present
                         THEN OkFile([q \in DOMAIN platform_limits |->
                                 [daily_count |-> 0, weekly_count |-> w,
                                  last_apply_time |-> None,
                                  last_reset_date |-> StartDay]])
                         ELSE MissingFile
    /\ state = load_state(state_file, platform_limits, now)
    /\ proc = "up"
    /\ lastOp = NoOp
    /\ checkedDay = [p \in PlatformNames |-> None]
    /\ recAt = [p \in PlatformNames |-> None]

\* the clock moves on to a later instant
Advance ==
    /\ \E t \in Times : t > now /\ now' = t
    /\ lastOp' = NoOp
    /\ UNCHANGED <<platform_limits, state, state_file, proc, checkedDay, recAt>>
    /\ UNCHANGED orchVars

\* can_apply(p)
CanApply(p) ==
    /\ proc = "up"
    /\ IF p \notin DOMAIN state
         THEN /\ lastOp' = [op |-> "can_apply", p |-> p, ret |-> FALSE, again |-> FALSE]
              /\ UNCHANGED <<state, state_file, checkedDay>>
         ELSE LET ps == reset_counts_if_needed(state[p], now)
              IN  /\ state' = [state EXCEPT ![p] = ps]
                  /\ state_file' = OkFile(state')
                  /\ lastOp' = [op |-> "can_apply", p |-> p,
                                ret |-> can_apply_result(p, ps, platform_limits, now),
                                again |-> (checkedDay[p] = DateOf(now))]
                  /\ checkedDay' = [checkedDay EXCEPT ![p] = DateOf(now)]
    /\ UNCHANGED <<now, platform_limits, proc, recAt>>
    /\ UNCHANGED orchVars

\* record_application(p)
RecordApplication(p) ==
    /\ proc = "up"
    /\ IF p \notin DOMAIN state
         THEN UNCHANGED <<state, state_file, recAt>>
         ELSE /\ state[p].daily_count < MaxCount
              /\ state' = [state EXCEPT ![p] = recorded(@, now)]
              /\ state_file' = OkFile(state')
              /\ recAt' = [recAt EXCEPT ![p] = now]
    /\ lastOp' = [op |-> "record_application", p |-> p, ret |-> FALSE, again |-> FALSE]
    /\ UNCHANGED <<now, platform_limits, proc, checkedDay>>
    /\ UNCHANGED orchVars

\* get_platform_stats(p)
GetPlatformStats(p) ==
    /\ proc = "up"
    /\ IF p \notin DOMAIN state
         THEN /\ lastOp' = [op |-> "get_platform_stats", p |-> p, ret |-> FALSE,
                            again |-> FALSE]
              /\ UNCHANGED <<state, state_file, checkedDay>>
         ELSE LET ps == reset_counts_if_needed(state[p], now)
              IN  /\ state' = [state EXCEPT ![p] = ps]
                  /\ state_file' = OkFile(state')
                  /\ lastOp' = [op |-> "get_platform_stats", p |-> p, ret |-> TRUE,
                                again |-> (checkedDay[p] = DateOf(now))]
                  /\ checkedDay' = [checkedDay EXCEPT ![p] = DateOf(now)]
    /\ UNCHANGED <<now, platform_limits, proc, recAt>>
    /\ UNCHANGED orchVars

\* a new process constructs ApplicationScheduler(platform_limits): __init__
Construct ==
    /\ state' = load_state(state_file, platform_limits, now)
    /\ proc' = "up"
    /\ lastOp' = NoOp
    /\ UNCHANGED <<now, platform_limits, state_file, checkedDay, recAt>>
    /\ UNCHANGED orchVars

\* the process dies inside _save_state, after open(state_file, 'w') has
\* truncated the file and before json.dump has written it out
CrashInSave ==
    /\ proc = "up"
    /\ state_file' = CorruptFile
    /\ proc' = "down"
    /\ lastOp' = NoOp
    /\ UNCHANGED <<now, platform_limits, state, checkedDay, recAt>>
    /\ UNCHANGED orchVars


(***************************************************************************)
(* Bounds of the orchestrator model.                                       *)
(***************************************************************************)
\* len(search_terms)
NumKeywords == 2
\* the most jobs get_job_listings returns for one page
MaxPageLen == 2
\* the most candidates an adapter lists in one run_platform call
MaxCandidates == 2
\* job ids are 1..NumJobIds
NumJobIds == 2
\* the orchestrator's clock is observed at the start and MaxOrchSteps times after
MaxOrchSteps == 1
\* the most platforms of PLATFORMS that have credentials configured
MaxConfigured == 3
\* a platform with no state file is explored up to this many applications
MaxFresh == 2

(***************************************************************************)
(* Program constants of the orchestrator.                                  *)
(***************************************************************************)
\* run_auto_applier.py:35,40,45,50  PLATFORMS[...]["daily_limit"]
LINKEDIN_DAILY_LIMIT == 100
INDEED_DAILY_LIMIT == 150
GLASSDOOR_DAILY_LIMIT == 100
DICE_DAILY_LIMIT == 100
\* platforms/__init__.py:133  get_platform_status: daily_limit = 100
DEFAULT_STATUS_LIMIT == 100
\* platforms/indeed.py:26  self.DAILY_LIMIT = 150
INDEED_STATUS_LIMIT == 150
\* run_auto_applier.py:214  buffer(3600)
NO_PLATFORM_WAIT == 3600
\* run_auto_applier.py:259  buffer(600)
CYCLE_WAIT == 600

\* run_auto_applier.py:63  platform_order
platform_order == <<"LinkedIn", "Indeed", "Glassdoor", "Dice">>
Platforms == {platform_order[i] : i \in 1..Len(platform_order)}
NoPlatform == "None"
JobIds == 1..NumJobIds

\* PLATFORMS[p]["daily_limit"]
PLATFORMS_daily_limit(p) ==
    CASE p = "LinkedIn" -> LINKEDIN_DAILY_LIMIT
      [] p = "Indeed" -> INDEED_DAILY_LIMIT
      [] p = "Glassdoor" -> GLASSDOOR_DAILY_LIMIT
      [] OTHER -> DICE_DAILY_LIMIT

\* the instants at which the orchestrator's clock is observed lie a day and
\* a half apart, so that a file saved at one is older than a day at the next
OrchStep == DayTicks + DayTicks \div 2
OrchTimes == {StartDay * DayTicks + k * OrchStep : k \in 0..MaxOrchSteps}

\* --------------------------------------------- platforms/__init__.py
NoPlatformFile == [kind |-> "missing", jobs_applied |-> 0, last_reset |-> 0]

\* JobPlatform.__init__ before _load_platform_state
NewPlat == [jobs_applied |-> 0, daily_limit_reached |-> FALSE]

\* _save_platform_state: last_reset is the instant of the save
save_platform_state(pl, t) ==
    [kind |-> "ok", jobs_applied |-> pl.jobs_applied, last_reset |-> t]

\* the file after _save_platform_state: open or json.dump raising is
\* swallowed by the bare except and the file stays as it was
write_platform_file(f, pl, t) ==
    IF disk_ok THEN save_platform_state(pl, t) ELSE f

\* _reset_daily_counts: zero the counter, clear the flag, save
reset_daily_counts(pl, f, t) ==
    LET z == [pl EXCEPT !.jobs_applied = 0, !.daily_limit_reached = FALSE]
    IN  [plat |-> z, file |-> write_platform_file(f, z, t), reset |-> TRUE]

\* _load_platform_state: no file, nothing is read; a file older than one day
\* (by its last save), or one that cannot be read, resets the counter
load_platform_state(f, t) ==
    IF f.kind = "missing"
      THEN [plat |-> NewPlat, file |-> f, reset |-> FALSE]
    ELSE IF f.kind = "ok"
      THEN IF t - f.last_reset > DayTicks
             THEN reset_daily_counts(NewPlat, f, t)
             ELSE [plat |-> [NewPlat EXCEPT !.jobs_applied = f.jobs_applied],
                   file |-> f, reset |-> FALSE]
    ELSE reset_daily_counts(NewPlat, f, t)

\* check_daily_limit's test
limit_hit(pl, platform_limit) == pl.jobs_applied >= platform_limit

\* get_platform_status of a freshly constructed instance. env is what the
\* browser shows Indeed's override: "popup" a limit warning on an Indeed
\* page, "error" the driver raising, "ok" neither.
get_platform_status(p, pl, env) ==
    IF p = "Indeed"
      THEN IF env = "error" THEN <<TRUE, INDEED_STATUS_LIMIT>>
           ELSE IF env = "popup" THEN <<FALSE, 0>>
           ELSE <<~pl.daily_limit_reached, INDEED_STATUS_LIMIT - pl.jobs_applied>>
      ELSE <<~pl.daily_limit_reached, DEFAULT_STATUS_LIMIT - pl.jobs_applied>>

\* ------------------------------------------------ run_auto_applier.py
\* validate_platform_config
validate_platform_config(p) == creds[p]

IndexOf(p) == CHOOSE i \in 1..Len(platform_order) : platform_order[i] = p

\* the rotation of platform_order that starts after current
rotated(current) ==
    IF current = NoPlatform THEN platform_order
    ELSE LET start_idx == IndexOf(current)
         IN  SubSeq(platform_order, start_idx + 1, Len(platform_order))
               \o SubSeq(platform_order, 1, start_idx)

\* the loop of get_next_available_platform from position i of order on:
\* each platform with credentials is constructed (its state file loaded,
\* reset and saved if due) and asked for its status
RECURSIVE scan_platforms(_, _, _, _, _)
scan_platforms(order, i, files, t, env) ==
    IF i > Len(order) THEN [result |-> NoPlatform, files |-> files, resets |-> {}]
    ELSE LET p == order[i]
         IN  IF ~validate_platform_config(p)
               THEN scan_platforms(order, i + 1, files, t, env)
               ELSE LET ld == load_platform_state(files[p], t)
                        files2 == [files EXCEPT ![p] = ld.file]
                        st == get_platform_status(p, ld.plat, env)
                        rs == IF ld.reset THEN {p} ELSE {}
                    IN  IF st[1] /\ st[2] > 0
                          THEN [result |-> p, files |-> files2, resets |-> rs]
                          ELSE LET rest == scan_platforms(order, i + 1, files2, t, env)
                               IN  [rest EXCEPT !.resets = @ \cup rs]

get_next_available_platform(current, files, t, env) ==
    scan_platforms(rotated(current), 1, files, t, env)

\* p is exhausted at instant t: the counter a new instance loads has reached
\* PLATFORMS[p]["daily_limit"], or p raised DailyLimitError (sig) and its
\* counter has not been reset since
Exhausted(p, files, sig, t) ==
    LET ld == load_platform_state(files[p], t)
    IN  \/ limit_hit(ld.plat, PLATFORMS_daily_limit(p))
        \/ (sig[p] /\ ~ld.reset)

\* p is eligible: credentials present, not exhausted, and the site does not
\* show a limit warning
Eligible(p, files, sig, t, env) ==
    /\ validate_platform_config(p)
    /\ ~Exhausted(p, files, sig, t)
    /\ ~(p = "Indeed" /\ env = "popup")

ZeroStats == [applied |-> 0, failed |-> 0, skipped |-> 0]
NoSel == [made |-> FALSE, exhausted |-> {}, eligible |-> {}, result |-> NoPlatform]

\* what apply_to_job can do on each platform: return a result, raise
\* DailyLimitError ("limit") or raise another exception ("error").
\* LinkedIn's reads self.blacklisted_companies and self.applied_jobs, which
\* the platform base does not define (AttributeError); Indeed's raises
\* DailyLimitError when the site shows a limit warning before or after the
\* submission, and returns "failed" on every other exception.
Outcomes(p) ==
    CASE p = "LinkedIn" -> {"success", "failed", "skipped", "error"}
      [] p = "Indeed" -> {"success", "failed", "limit"}
      [] p = "Glassdoor" -> {"success", "failed"}
      [] OTHER -> {"success", "failed", "skipped"}

\* a variant of the result handling that counts a failed attempt too
apply_outcome_mut_counts_attempts(pl, st, out) ==
    IF out = "success"
      THEN [plat |-> [pl EXCEPT !.jobs_applied = @ + 1],
            stats |-> [st EXCEPT !.applied = @ + 1]]
    ELSE IF out = "failed"
      THEN [plat |-> [pl EXCEPT !.jobs_applied = @ + 1],
            stats |-> [st EXCEPT !.failed = @ + 1]]
    ELSE [plat |-> pl, stats |-> [st EXCEPT !.skipped = @ + 1]]

\* run_platform's handling of the result of apply_to_job (lines 153-172)
apply_outcome(pl, st, out) ==
    IF out = "success"
      THEN [plat |-> [pl EXCEPT !.jobs_applied = @ + 1],
            stats |-> [st EXCEPT !.applied = @ + 1]]
    ELSE IF out = "failed"
      THEN [plat |-> pl, stats |-> [st EXCEPT !.failed = @ + 1]]
    ELSE [plat |-> pl, stats |-> [st EXCEPT !.skipped = @ + 1]]

\* the state files a run can start from: none, or one saved at the start
\* instant by an earlier process with the counter one short of, or at, the limit
StartFiles(p) ==
    {NoPlatformFile}
      \cup {[kind |-> "ok", jobs_applied |-> PLATFORMS_daily_limit(p) - d,
             last_reset |-> StartDay * DayTicks] : d \in {0, 1}}

\* the files can be written and no save has failed
DiskIdle == disk_ok = TRUE /\ unsaved = [p \in Platforms |-> 0]

OrchInit ==
    /\ OtherIdle
    /\ DiskIdle
    /\ creds \in [Platforms -> BOOLEAN]
    /\ Cardinality({p \in Platforms : creds[p]}) <= MaxConfigured
    /\ run_non_stop \in BOOLEAN
    /\ use_AI \in BOOLEAN
    /\ \E fl \in StartFiles("LinkedIn"), fi \in StartFiles("Indeed"),
          fg \in StartFiles("Glassdoor"), fd \in StartFiles("Dice") :
          platform_file = [p \in Platforms |->
                              IF ~creds[p] THEN NoPlatformFile
                              ELSE CASE p = "LinkedIn" -> fl
                                     [] p = "Indeed" -> fi
                                     [] p = "Glassdoor" -> fg
                                     [] OTHER -> fd]
    /\ pc = "select"
    /\ current_platform = NoPlatform
    /\ plat = NewPlat
    /\ stats = ZeroStats
    /\ kw = 1
    /\ left = 0
    /\ yielded = 0
    /\ application_history = {}
    /\ startApplied = 0
    /\ nSuccess = 0
    /\ appliedIds = {}
    /\ signalled = [p \in Platforms |-> FALSE]
    /\ limitRaised = FALSE
    /\ lastSel = NoSel
    /\ waited = 0
    /\ last_used = NoPlatform
    /\ sigint = "none"

\* the orchestrator is not running (in the scheduler's specifications)
OrchAtRest ==
    /\ DiskIdle
    /\ creds = [p \in Platforms |-> FALSE]
    /\ run_non_stop = FALSE
    /\ use_AI = FALSE
    /\ platform_file = [p \in Platforms |-> NoPlatformFile]
    /\ pc = "idle"
    /\ current_platform = NoPlatform
    /\ plat = NewPlat
    /\ stats = ZeroStats
    /\ kw = 1
    /\ left = 0
    /\ yielded = 0
    /\ application_history = {}
    /\ startApplied = 0
    /\ nSuccess = 0
    /\ appliedIds = {}
    /\ signalled = [p \in Platforms |-> FALSE]
    /\ limitRaised = FALSE
    /\ lastSel = NoSel
    /\ waited = 0
    /\ last_used = NoPlatform
    /\ sigint = "none"

OrchIdle == OtherIdle /\ OrchAtRest

\* the scheduler is not in use (in the orchestrator's specification)
SchedIdle ==
    /\ platform_limits = EmptyState
    /\ state = EmptyState
    /\ state_file = MissingFile
    /\ proc = "down"
    /\ lastOp = NoOp
    /\ checkedDay = [p \in PlatformNames |-> None]
    /\ recAt = [p \in PlatformNames |-> None]

\* ----------------------------------------------- orchestrator actions
\* buffer(seconds): the seconds it sleeps
buffer_mut_returns_at_once(seconds) == 0

buffer(seconds) == IF seconds > 0 THEN seconds ELSE 0

histVars == <<startApplied, nSuccess, appliedIds, signalled, limitRaised>>
confVars == <<creds, run_non_stop, use_AI, disk_ok, sigint, otherVars>>

\* the clock of the orchestrator moves on
AdvanceOrch ==
    /\ pc \in {"select", "login"}
    /\ \E t \in OrchTimes : t > now /\ now' = t
    /\ UNCHANGED <<schedVars, orchVars>>

\* main, top of the loop: current_platform = get_next_available_platform(...)
Select ==
    /\ pc = "select"
    /\ \E env \in {"ok", "popup", "error"} :
          LET sel == get_next_available_platform(current_platform, platform_file, now, env)
          IN  /\ current_platform' = sel.result
              /\ platform_file' = sel.files
              /\ signalled' = [p \in Platforms |->
                                  IF p \in sel.resets THEN FALSE ELSE signalled[p]]
              /\ unsaved' = [p \in Platforms |->
                                IF p \in sel.resets THEN 0 ELSE unsaved[p]]
              /\ lastSel' = [made |-> TRUE,
                             exhausted |-> {p \in Platforms :
                                 Exhausted(p, platform_file, signalled, now)},
                             eligible |-> {p \in Platforms :
                                 Eligible(p, platform_file, signalled, now, env)},
                             result |-> sel.result]
              /\ pc' = IF sel.result # NoPlatform THEN "login"
                       ELSE IF run_non_stop THEN "sleep_hour" ELSE "terminal"
    /\ waited' = 0
    /\ UNCHANGED <<now, schedVars, confVars, plat, stats, kw, left, yielded,
                   application_history, startApplied, nSuccess, appliedIds,
                   limitRaised, last_used>>

\* main: buffer(3600); continue
SleepHour ==
    /\ pc = "sleep_hour"
    /\ pc' = "select"
    /\ lastSel' = NoSel
    /\ waited' = waited + buffer(NO_PLATFORM_WAIT)
    /\ UNCHANGED <<now, schedVars, confVars, platform_file, unsaved, current_platform, plat,
                   stats, kw, left, yielded, application_history, histVars,
                   last_used>>

\* run_platform up to the first search: construct the platform, log in
Login ==
    /\ pc = "login"
    /\ LET ld == load_platform_state(platform_file[current_platform], now)
       IN  /\ plat' = ld.plat
           /\ platform_file' = [platform_file EXCEPT ![current_platform] = ld.file]
           /\ signalled' = [signalled EXCEPT ![current_platform] =
                               IF ld.reset THEN FALSE ELSE @]
           /\ unsaved' = [unsaved EXCEPT ![current_platform] =
                             IF ld.reset THEN 0 ELSE @]
           /\ startApplied' = ld.plat.jobs_applied
    /\ \E ok \in BOOLEAN : pc' = IF ok THEN "page_top" ELSE "stats"
    /\ stats' = ZeroStats
    /\ kw' = 1
    /\ left' = 0
    /\ yielded' = 0
    /\ nSuccess' = 0
    /\ appliedIds' = {}
    /\ lastSel' = NoSel
    /\ last_used' = current_platform
    /\ UNCHANGED <<now, schedVars, confVars, current_platform, application_history,
                   limitRaised, waited>>

\* leaving run_platform through finally: _save_platform_state, return stats
ExitRun(pl) ==
    /\ plat' = pl
    /\ platform_file' = [platform_file EXCEPT
                            ![current_platform] = write_platform_file(@, pl, now)]
    /\ unsaved' = [unsaved EXCEPT ![current_platform] =
                      IF disk_ok THEN 0 ELSE pl.jobs_applied]
    /\ pc' = "stats"
    /\ left' = 0
    /\ kw' = kw

\* check_daily_limit raising DailyLimitError: flag, save, raise; run_platform
\* catches it and leaves through finally
RaiseDailyLimit ==
    /\ ExitRun([plat EXCEPT !.daily_limit_reached = TRUE])
    /\ signalled' = [signalled EXCEPT ![current_platform] = TRUE]
    /\ limitRaised' = TRUE

\* break out of the page loop: the next search term, or the end of the run
AfterBreak ==
    IF kw < NumKeywords
      THEN /\ kw' = kw + 1
           /\ pc' = "page_top"
           /\ left' = 0
           /\ UNCHANGED <<plat, platform_file, unsaved>>
      ELSE ExitRun(plat)

\* top of the page loop: check_daily_limit, get_job_listings
PageTop ==
    /\ pc = "page_top"
    /\ IF limit_hit(plat, PLATFORMS_daily_limit(current_platform))
         THEN RaiseDailyLimit /\ UNCHANGED yielded
         ELSE /\ \E n \in 0..MaxPageLen :
                    /\ yielded + n <= MaxCandidates
                    /\ yielded' = yielded + n
                    /\ IF n = 0
                         THEN AfterBreak
                         ELSE /\ left' = n
                              /\ pc' = "cand"
                              /\ UNCHANGED <<plat, platform_file, unsaved, kw>>
              /\ UNCHANGED <<signalled, limitRaised>>
    /\ UNCHANGED <<now, schedVars, confVars, current_platform, stats,
                   application_history, startApplied, nSuccess, appliedIds,
                   lastSel, waited, last_used>>

\* continue with the next job of the page
NextJob ==
    /\ left' = left - 1
    /\ pc' = IF left = 1 THEN "next_page" ELSE "cand"
    /\ kw' = kw

\* one iteration of "for job in jobs": the job has id, get_job_details
\* succeeds or not, should_apply answers ai_yes, apply_to_job does out
Candidate ==
    /\ pc = "cand"
    /\ left > 0
    /\ \E id \in JobIds, details_ok \in BOOLEAN, ai_yes \in BOOLEAN,
          out \in Outcomes(current_platform) :
        IF limit_hit(plat, PLATFORMS_daily_limit(current_platform))
          THEN /\ RaiseDailyLimit
               /\ UNCHANGED <<stats, application_history, nSuccess, appliedIds>>
        ELSE IF ~details_ok
          THEN /\ NextJob
               /\ UNCHANGED <<plat, platform_file, unsaved, stats, application_history,
                              histVars>>
        ELSE IF use_AI
          THEN IF ~ai_yes
                 THEN /\ stats' = [stats EXCEPT !.skipped = @ + 1]
                      /\ NextJob
                      /\ UNCHANGED <<plat, platform_file, unsaved, application_history, histVars>>
                 \* optimize_application calls extract_required_skills, which
                 \* SmartApplicationManager does not define: AttributeError
                 ELSE /\ ExitRun(plat)
                      /\ UNCHANGED <<stats, application_history, histVars>>
        ELSE /\ IF out = "limit"
                  THEN /\ RaiseDailyLimit
                       /\ UNCHANGED <<stats, application_history, nSuccess, appliedIds>>
                ELSE IF out = "error"
                  THEN /\ ExitRun(plat)
                       /\ UNCHANGED <<stats, application_history, nSuccess,
                                      appliedIds, signalled, limitRaised>>
                ELSE /\ out = "success" =>
                            (\/ plat.jobs_applied < MaxFresh
                             \/ plat.jobs_applied >=
                                  PLATFORMS_daily_limit(current_platform) - 1)
                     /\ LET r == apply_outcome(plat, stats, out)
                        IN  plat' = r.plat /\ stats' = r.stats
                     /\ application_history' =
                            IF use_AI /\ out \in {"success", "failed"}
                              THEN application_history \cup {id}
                              ELSE application_history
                     /\ nSuccess' = IF out = "success" THEN nSuccess + 1 ELSE nSuccess
                     /\ appliedIds' = IF out = "success" THEN appliedIds \cup {id}
                                      ELSE appliedIds
                     /\ NextJob
                     /\ UNCHANGED <<platform_file, unsaved, signalled, limitRaised>>
    /\ UNCHANGED <<now, schedVars, confVars, current_platform, yielded, startApplied,
                   lastSel, waited, last_used>>

\* after the page: get_next_page
NextPage ==
    /\ pc = "next_page"
    /\ \E more \in BOOLEAN :
          IF more THEN /\ pc' = "page_top"
                       /\ UNCHANGED <<plat, platform_file, unsaved, kw, left>>
                  ELSE AfterBreak
    /\ UNCHANGED <<now, schedVars, confVars, current_platform, stats, yielded,
                   application_history, histVars, lastSel, waited, last_used>>

\* main after run_platform returned: statistics, then stop or wait.
\* With the AI manager, ai_stats['successful'] / ai_stats['total'] raises
\* ZeroDivisionError when nothing was tracked; main's except ends the run.
CycleStats ==
    /\ pc = "stats"
    /\ pc' = IF use_AI /\ Cardinality(application_history) = 0 THEN "main_error"
             ELSE IF run_non_stop THEN "sleep_cycle" ELSE "terminal"
    /\ plat' = NewPlat
    /\ stats' = ZeroStats
    /\ kw' = 1
    /\ left' = 0
    /\ yielded' = 0
    /\ startApplied' = 0
    /\ nSuccess' = 0
    /\ appliedIds' = {}
    /\ limitRaised' = FALSE
    /\ UNCHANGED <<now, schedVars, confVars, platform_file, unsaved, current_platform,
                   application_history, signalled, lastSel, waited, last_used>>

\* main: buffer(600); cycle += 1
SleepCycle ==
    /\ pc = "sleep_cycle"
    /\ pc' = "select"
    /\ waited' = waited + buffer(CYCLE_WAIT)
    /\ UNCHANGED <<now, schedVars, confVars, platform_file, unsaved, current_platform, plat,
                   stats, kw, left, yielded, application_history, histVars, lastSel,
                   last_used>>

NextOrch ==
    \/ AdvanceOrch
    \/ Select
    \/ SleepHour
    \/ Login
    \/ PageTop
    \/ Candidate
    \/ NextPage
    \/ CycleStats
    \/ SleepCycle

NextSched ==
    \/ Advance
    \/ \E p \in PlatformNames : CanApply(p)
    \/ \E p \in PlatformNames : RecordApplication(p)
    \/ \E p \in PlatformNames : GetPlatformStats(p)
    \/ Construct

\* a process that uses the scheduler alone
InitScheduler == InitSched /\ OrchIdle

SpecSched == InitScheduler /\ [][NextSched]_vars

NextSchedCrash == NextSched \/ CrashInSave

SpecSchedCrash == InitScheduler /\ [][NextSchedCrash]_vars

InitOrch == now = StartDay * DayTicks /\ SchedIdle /\ OrchInit

SpecOrch == InitOrch /\ [][NextOrch]_vars

\* one call of run_platform, for any platform, from any of the state files
\* a run can find
RunInit ==
    /\ OtherIdle
    /\ DiskIdle
    /\ creds = [p \in Platforms |-> TRUE]
    /\ run_non_stop = FALSE
    /\ use_AI \in BOOLEAN
    /\ current_platform \in Platforms
    /\ \E f \in StartFiles(current_platform)
               \cup {[kind |-> "ok", jobs_applied |-> c,
                      last_reset |-> StartDay * DayTicks] : c \in 0..MaxFresh} :
          platform_file = [p \in Platforms |->
                              IF p = current_platform THEN f ELSE NoPlatformFile]
    /\ pc = "login"
    /\ plat = NewPlat
    /\ stats = ZeroStats
    /\ kw = 1
    /\ left = 0
    /\ yielded = 0
    /\ application_history = {}
    /\ startApplied = 0
    /\ nSuccess = 0
    /\ appliedIds = {}
    /\ signalled = [p \in Platforms |-> FALSE]
    /\ limitRaised = FALSE
    /\ lastSel = NoSel
    /\ waited = 0
    /\ last_used = NoPlatform
    /\ sigint = "none"

InitRun == now = StartDay * DayTicks /\ SchedIdle /\ RunInit

NextRun ==
    \/ AdvanceOrch
    \/ Login
    \/ PageTop
    \/ Candidate
    \/ NextPage

SpecRun == InitRun /\ [][NextRun]_vars

(***************************************************************************)
(* Claims about the quota scheduler.                                       *)
(***************************************************************************)

\* C1: in every reachable state each platform's daily_count is at most its
\* limit in platform_limits, and linkedin's weekly_count is at most 150.
C1_QuotaBound ==
    \A p \in DOMAIN state :
        /\ state[p].daily_count <= platform_limits[p]
        /\ (p = "linkedin" => state[p].weekly_count <= LINKEDIN_WEEKLY)

LimitsReached(p) ==
    \/ state[p].daily_count >= platform_limits[p]
    \/ (p = "linkedin" /\ state[p].weekly_count >= LINKEDIN_WEEKLY)

\* C6: after record_application(p) at instant t0, can_apply(p) returns False
\* at every instant before t0 + 30 s and True at t0 + 30 s when neither
\* limit is reached.
C6_Cooldown ==
    \A p \in DOMAIN state :
        (lastOp.op = "can_apply" /\ lastOp.p = p /\ recAt[p] # None) =>
            /\ (now < recAt[p] + CooldownTicks => lastOp.ret = FALSE)
            /\ (now = recAt[p] + CooldownTicks /\ ~LimitsReached(p)
                    => lastOp.ret = TRUE)

\* C7: the daily and weekly counts used for quota decisions never decrease
\* except when the day (week) reset fires, also across a crash inside a
\* state save followed by a reload in a new process.
C7_Monotone ==
    [][\A p \in DOMAIN state :
          /\ p \in DOMAIN state'
          /\ (state'[p].daily_count < state[p].daily_count
                => DateOf(now) > state[p].last_reset_date)
          /\ (state'[p].weekly_count < state[p].weekly_count
                => (DateOf(now) > state[p].last_reset_date /\ Weekday(now) = 0))
      ]_vars

\* C9: once a reset check has run for a platform on calendar day D, every
\* further reset check for it on day D leaves daily_count, weekly_count and
\* last_reset_date unchanged, whatever was recorded in between.
C9_ResetIdempotent ==
    [][\A p \in DOMAIN state :
          (/\ lastOp'.op \in {"can_apply", "get_platform_stats"}
           /\ lastOp'.p = p
           /\ lastOp'.again)
          => (p \in DOMAIN state' /\ state'[p] = state[p])
      ]_vars

\* C9 witness: on a Monday on which both resets fired, applications were
\* recorded and a second reset check of the same day has just run.
C9_Witness ==
    /\ lastOp.op = "can_apply"
    /\ lastOp.again
    /\ lastOp.p \in DOMAIN state
    /\ Weekday(now) = 0
    /\ state[lastOp.p].last_reset_date = DateOf(now)
    /\ state[lastOp.p].daily_count > 0

(***************************************************************************)
(* Claims about run_platform and main.                                     *)
(***************************************************************************)

\* the count a new process would read from the state file of the platform
\* that is running
PersistedCount == platform_file[current_platform].jobs_applied

InRun == pc \in {"page_top", "cand", "next_page", "stats"}

\* C2: throughout run_platform, and at its end, the platform's jobs_applied
\* equals its value at the start plus the number of apply_to_job calls that
\* returned 'success', which is also the 'applied' count of the statistics:
\* one increment per success, none for failed, skipped or raising calls.
C2_OncePerSuccess ==
    InRun => /\ plat.jobs_applied = startApplied + nSuccess
             /\ stats.applied = nSuccess

\* C2 witness: a run has ended by DailyLimitError after both a successful
\* and a failed application.
C2_Witness ==
    /\ pc = "stats"
    /\ limitRaised
    /\ nSuccess > 0
    /\ stats.failed > 0

\* C3: no job is applied to twice: every apply_to_job call that returns
\* 'success' is for an id that was not applied to before in this run.
C3_NoReapply ==
    [][nSuccess' > nSuccess => appliedIds' # appliedIds]_vars

\* C4: get_next_available_platform never returns an exhausted platform, one
\* whose counter has reached its daily_limit in PLATFORMS or that has raised
\* DailyLimitError, before its counter is reset.
C4_NeverExhausted ==
    lastSel.made => lastSel.result \notin lastSel.exhausted

\* C5: when DailyLimitError ended run_platform, the state file holds the
\* applications counted, the statistics returned are those gathered, and
\* main goes on to its wait or its normal end, not to its error handler.
C5_ControlledLimit ==
    [][(pc = "stats" /\ limitRaised) =>
          /\ PersistedCount = plat.jobs_applied
          /\ stats.applied = nSuccess
          /\ pc' \in {"sleep_cycle", "terminal"}
      ]_vars

\* C8: at the top of each candidate iteration of run_platform the persisted
\* count equals the in-memory count.
C8_SyncPersist ==
    pc = "cand" => PersistedCount = plat.jobs_applied

\* C10: get_next_available_platform returns an eligible platform whenever
\* one exists, whatever current_platform is, and None only when none is
\* eligible.
C10_RotationFair ==
    lastSel.made =>
        /\ (lastSel.eligible # {} => lastSel.result \in lastSel.eligible)
        /\ (lastSel.result = NoPlatform => lastSel.eligible = {})


(***************************************************************************)
(* Job screening: JobValidator (app/modules/jobs/validator.py), JobFilter  *)
(* (modules/job_filter.py) and SmartApplicationManager.screen_company.     *)
(* A text is the set of words that occur in it, each with the case it is   *)
(* written in; "word.lower() in text.lower()" compares lowered forms.      *)
(***************************************************************************)
MaxYears == 6

Companies == {"acme", "globex"}
CompanyWords == {"Staffing", "direct"}
\* the text standing for a candidate that has no such field
Absent == {"(absent)"}

\* str.lower on the words that occur
Lower(w) ==
    CASE w = "Staffing" -> "staffing"
      [] w = "Direct" -> "direct"
      [] w = "Junk" -> "junk"
      [] OTHER -> w

\* word.lower() in text.lower()
contains(word, text) == \E t \in text : Lower(t) = Lower(word)

\* the second component of the validator's answers: the message and the
\* values formatted into it
Reason(text, word, required, total) ==
    [text |-> text, word |-> word, required |-> required, total |-> total]
ProcessedReason == Reason("Job already processed or company blacklisted", "", 0, 0)
ClearanceReason == Reason("Security clearance required", "", 0, 0)
NoReason == Reason("None", "", 0, 0)
BadWordReason(word, place) == Reason("Found bad word in " \o place, word, 0, 0)
ExperienceReason(required, total) ==
    Reason("Required experience exceeds current experience", "", required, total)

\* the candidates handed to JobValidator and to JobFilter
ValidatorJobs ==
    [job_id : JobIds, company : Companies, company_info : {{}, {"Staffing"}},
     description : {Absent, {"Junk"}, {"secret"}},
     experience_required : {0, 2}]
FilterJobs ==
    [job_id : JobIds, company : Companies,
     company_info : {{}, {"Staffing"}, {"Staffing", "direct"}},
     description : {Absent, {"Junk"}},
     experience_required : {0, 2}]

check_job_status_mut_ignores_rejected(job_id, company, applied, rejected, blacklisted) ==
    IF job_id \in applied THEN FALSE
    ELSE IF company \in blacklisted THEN FALSE
    ELSE TRUE

\* JobValidator._check_job_status
check_job_status(job_id, company, applied, rejected, blacklisted) ==
    IF job_id \in applied THEN FALSE
    ELSE IF job_id \in rejected THEN FALSE
    ELSE IF company \in blacklisted THEN FALSE
    ELSE TRUE

\* JobValidator.validate_company: good words first, then self.bad_words
validate_company(c, about_company) ==
    IF \E word \in c.about_company_good_words : contains(word, about_company)
      THEN [ok |-> TRUE, reason |-> NoReason]
    ELSE IF \E word \in c.bad_words : contains(word, about_company)
      THEN [ok |-> FALSE,
            reason |-> BadWordReason(
                CHOOSE word \in c.bad_words : contains(word, about_company),
                "company description")]
    ELSE [ok |-> TRUE, reason |-> NoReason]

ClearanceTerms == {"polygraph", "clearance", "secret"}

\* JobValidator._validate_description
validate_description(c, description) ==
    IF \E word \in c.bad_words : contains(word, description)
      THEN [ok |-> FALSE,
            reason |-> BadWordReason(
                CHOOSE word \in c.bad_words : contains(word, description),
                "job description")]
    ELSE IF ~c.security_clearance_required
            /\ \E term \in ClearanceTerms : \E t \in description : Lower(t) = term
      THEN [ok |-> FALSE, reason |-> ClearanceReason]
    ELSE [ok |-> TRUE, reason |-> NoReason]

experience_mut_no_bonus(c, required_experience) ==
    IF c.current_experience = 0 - 1 THEN [ok |-> TRUE, reason |-> NoReason]
    ELSE IF required_experience > c.current_experience
           THEN [ok |-> FALSE,
                 reason |-> ExperienceReason(required_experience, c.current_experience)]
         ELSE [ok |-> TRUE, reason |-> NoReason]

\* JobValidator.validate_experience
validate_experience(c, required_experience) ==
    IF c.current_experience = 0 - 1 THEN [ok |-> TRUE, reason |-> NoReason]
    ELSE LET total_experience ==
                 IF c.did_masters THEN c.current_experience + 2
                 ELSE c.current_experience
         IN  IF required_experience > total_experience
               THEN [ok |-> FALSE,
                     reason |-> ExperienceReason(required_experience, total_experience)]
             ELSE [ok |-> TRUE, reason |-> NoReason]

\* JobValidator.validate_job
validate_job(c, job_details, applied, rejected, blacklisted) ==
    IF ~check_job_status(job_details.job_id, job_details.company,
                         applied, rejected, blacklisted)
      THEN [ok |-> FALSE, reason |-> ProcessedReason]
    ELSE IF job_details.description # Absent
            /\ ~validate_description(c, job_details.description).ok
      THEN validate_description(c, job_details.description)
    ELSE [ok |-> TRUE, reason |-> NoReason]

\* .get('description', ''), .get('company_info', '')
text_or_empty(t) == IF t = Absent THEN {} ELSE t

\* is_job_suitable with the company added to blacklisted_companies already on
\* the skipped-id rejection
is_job_suitable_mut_blacklists_skipped(c, f, job_details) ==
    IF job_details.job_id \in f.skipped_jobs
      THEN [ret |-> FALSE, rule |-> "skipped",
            flt |-> [f EXCEPT !.blacklisted_companies = @ \cup {job_details.company}]]
    ELSE IF job_details.company \in f.blacklisted_companies
      THEN [ret |-> FALSE, rule |-> "blacklisted", flt |-> f]
    ELSE IF (\E word \in c.about_company_bad_words :
                 contains(word, job_details.company_info))
            /\ ~\E word \in c.about_company_good_words :
                   contains(word, job_details.company_info)
      THEN [ret |-> FALSE, rule |-> "company",
            flt |-> [f EXCEPT !.blacklisted_companies = @ \cup {job_details.company}]]
    ELSE IF \E word \in c.bad_words :
                contains(word, text_or_empty(job_details.description))
      THEN [ret |-> FALSE, rule |-> "description", flt |-> f]
    ELSE IF c.current_experience >= 0
            /\ job_details.experience_required # 0
            /\ job_details.experience_required > c.current_experience
      THEN [ret |-> FALSE, rule |-> "experience", flt |-> f]
    ELSE [ret |-> TRUE, rule |-> "none", flt |-> f]

is_job_suitable_mut_no_blacklist(c, f, job_details) ==
    IF job_details.job_id \in f.skipped_jobs
      THEN [ret |-> FALSE, rule |-> "skipped", flt |-> f]
    ELSE IF job_details.company \in f.blacklisted_companies
      THEN [ret |-> FALSE, rule |-> "blacklisted", flt |-> f]
    ELSE IF (\E word \in c.about_company_bad_words :
                 contains(word, job_details.company_info))
            /\ ~\E word \in c.about_company_good_words :
                   contains(word, job_details.company_info)
      THEN [ret |-> FALSE, rule |-> "company", flt |-> f]
    ELSE [ret |-> TRUE, rule |-> "none", flt |-> f]

\* JobFilter.is_job_suitable: the answer, the rule that gave it, and the
\* instance afterwards
is_job_suitable(c, f, job_details) ==
    IF job_details.job_id \in f.skipped_jobs
      THEN [ret |-> FALSE, rule |-> "skipped", flt |-> f]
    ELSE IF job_details.company \in f.blacklisted_companies
      THEN [ret |-> FALSE, rule |-> "blacklisted", flt |-> f]
    ELSE IF (\E word \in c.about_company_bad_words :
                 contains(word, job_details.company_info))
            /\ ~\E word \in c.about_company_good_words :
                   contains(word, job_details.company_info)
      THEN [ret |-> FALSE, rule |-> "company",
            flt |-> [f EXCEPT !.blacklisted_companies = @ \cup {job_details.company}]]
    ELSE IF \E word \in c.bad_words :
                contains(word, text_or_empty(job_details.description))
      THEN [ret |-> FALSE, rule |-> "description", flt |-> f]
    ELSE IF c.current_experience >= 0
            /\ job_details.experience_required # 0
            /\ job_details.experience_required > c.current_experience
      THEN [ret |-> FALSE, rule |-> "experience", flt |-> f]
    ELSE [ret |-> TRUE, rule |-> "none", flt |-> f]

\* SmartApplicationManager.screen_company; ai is what the model answered
\* (an error in the AI call counts as acceptance)
screen_company(c, company_info, ai) ==
    IF \E word \in c.about_company_bad_words : contains(word, company_info)
      THEN \E good_word \in c.about_company_good_words :
               contains(good_word, company_info)
    ELSE IF ~c.use_AI THEN TRUE
    ELSE ai

\* ------------------------------------------------- screening actions
valSets == <<applied_jobs, rejected_jobs, blacklisted_companies>>
nonScreen == <<now, schedVars, creds, run_non_stop, use_AI, platform_file, pc,
               current_platform, plat, stats, kw, left, yielded,
               application_history, startApplied, nSuccess, appliedIds,
               signalled, limitRaised, lastSel, disk_ok, unsaved, waited, last_used, sigint, clickVars,
               trackVars, appVars>>

ValidateJob ==
    \E j \in ValidatorJobs :
        LET r == validate_job(cfg, j, applied_jobs, rejected_jobs,
                              blacklisted_companies)
        IN  /\ call' = [op |-> "validate_job", job |-> j, ret |-> r.ok,
                        reason |-> r.reason]
            /\ UNCHANGED <<nonScreen, cfg, valSets, flt>>

\* the caller records an application (MetricsTracker.log_application)
AddApplied ==
    \E id \in JobIds :
        /\ applied_jobs' = applied_jobs \cup {id}
        /\ call' = [op |-> "add_applied", id |-> id]
        /\ UNCHANGED <<nonScreen, cfg, rejected_jobs, blacklisted_companies, flt>>

AddRejected ==
    \E id \in JobIds :
        /\ rejected_jobs' = rejected_jobs \cup {id}
        /\ call' = [op |-> "add_rejected", id |-> id]
        /\ UNCHANGED <<nonScreen, cfg, applied_jobs, blacklisted_companies, flt>>

AddBlacklisted ==
    \E co \in Companies :
        /\ blacklisted_companies' = blacklisted_companies \cup {co}
        /\ call' = [op |-> "add_blacklisted", company |-> co]
        /\ UNCHANGED <<nonScreen, cfg, applied_jobs, rejected_jobs, flt>>

ValidateCompany ==
    \E info \in SUBSET CompanyWords :
        LET r == validate_company(cfg, info)
        IN  /\ call' = [op |-> "validate_company", info |-> info, ret |-> r.ok,
                        reason |-> r.reason]
            /\ UNCHANGED <<nonScreen, cfg, valSets, flt>>

ValidateExperience ==
    \E required \in 0..MaxYears :
        LET r == validate_experience(cfg, required)
        IN  /\ call' = [op |-> "validate_experience", required |-> required,
                        ret |-> r.ok, reason |-> r.reason]
            /\ UNCHANGED <<nonScreen, cfg, valSets, flt>>

IsJobSuitable ==
    \E j \in FilterJobs :
        LET r == is_job_suitable(cfg, flt, j)
        IN  /\ flt' = r.flt
            /\ call' = [op |-> "is_job_suitable", job |-> j, ret |-> r.ret,
                        rule |-> r.rule]
            /\ UNCHANGED <<nonScreen, cfg, valSets>>

ScreenCompany ==
    \E info \in SUBSET CompanyWords, ai \in BOOLEAN :
        /\ call' = [op |-> "screen_company", info |-> info,
                    ret |-> screen_company(cfg, info, ai)]
        /\ UNCHANGED <<nonScreen, cfg, valSets, flt>>

TrackSkippedJob ==
    \E id \in JobIds :
        /\ flt' = [flt EXCEPT !.skipped_jobs = @ \cup {id}]
        /\ call' = [op |-> "track_skipped_job", id |-> id]
        /\ UNCHANGED <<nonScreen, cfg, valSets>>

TrackBlacklistedCompany ==
    \E co \in Companies :
        /\ flt' = [flt EXCEPT !.blacklisted_companies = @ \cup {co}]
        /\ call' = [op |-> "track_blacklisted_company", company |-> co]
        /\ UNCHANGED <<nonScreen, cfg, valSets>>

\* everything but the screeners is at rest
ScreenOnly ==
    /\ now = StartDay * DayTicks
    /\ SchedIdle
    /\ OrchAtRest
    /\ ClickIdle
    /\ TrackIdle
    /\ AppIdle

\* a JobValidator and the three sets its caller keeps
InitValidator ==
    /\ ScreenOnly
    /\ cfg \in [bad_words : {{"junk", "staffing"}},
                about_company_bad_words : {{"staffing"}},
                about_company_good_words : {{"Direct"}},
                security_clearance_required : BOOLEAN,
                current_experience : {0 - 1, 1},
                did_masters : {FALSE},
                use_AI : {FALSE}]
    /\ applied_jobs = {}
    /\ rejected_jobs = {}
    /\ blacklisted_companies = {}
    /\ flt = [blacklisted_companies |-> {}, skipped_jobs |-> {}]
    /\ call = NoCall

NextValidator == ValidateJob \/ AddApplied \/ AddRejected \/ AddBlacklisted

SpecValidator == InitValidator /\ [][NextValidator]_vars

\* validate_experience for every configured experience
InitExperience ==
    /\ ScreenOnly
    /\ cfg \in [bad_words : {{}},
                about_company_bad_words : {{}},
                about_company_good_words : {{}},
                security_clearance_required : {FALSE},
                current_experience : (0 - 1)..MaxYears,
                did_masters : BOOLEAN,
                use_AI : {FALSE}]
    /\ applied_jobs = {}
    /\ rejected_jobs = {}
    /\ blacklisted_companies = {}
    /\ flt = [blacklisted_companies |-> {}, skipped_jobs |-> {}]
    /\ call = NoCall

SpecExperience == InitExperience /\ [][ValidateExperience]_vars

\* a JobFilter, and the two other company screeners under the same settings
InitFilter ==
    /\ ScreenOnly
    /\ cfg \in [bad_words : {{"junk"}},
                about_company_bad_words : {{"staffing"}},
                about_company_good_words : {{}, {"Direct"}},
                security_clearance_required : {FALSE},
                current_experience : {0 - 1, 1},
                did_masters : {FALSE},
                use_AI : BOOLEAN]
    /\ applied_jobs = {}
    /\ rejected_jobs = {}
    /\ blacklisted_companies = {}
    /\ flt = [blacklisted_companies |-> {}, skipped_jobs |-> {}]
    /\ call = NoCall

NextFilter ==
    \/ IsJobSuitable
    \/ ValidateCompany
    \/ ScreenCompany
    \/ TrackSkippedJob
    \/ TrackBlacklistedCompany

SpecFilter == InitFilter /\ [][NextFilter]_vars


(***************************************************************************)
(* Claims about job screening.                                             *)
(***************************************************************************)

\* C11: validate_job answers (False, "already processed") for every candidate
\* whose job_id is in applied_jobs or rejected_jobs, whatever its other
\* fields and however often it is asked, and the call leaves applied_jobs,
\* rejected_jobs and blacklisted_companies as they were.
C11_DedupIdempotent ==
    [][(call'.op = "validate_job"
          /\ call'.job.job_id \in applied_jobs \cup rejected_jobs)
         => /\ ~call'.ret
            /\ call'.reason = ProcessedReason
            /\ UNCHANGED valSets]_vars

\* an id recorded as applied is validated; nothing else about the candidate
\* could have rejected it
C11_Witness ==
    /\ call.op = "validate_job"
    /\ call.job.job_id \in applied_jobs
    /\ call.job.job_id \notin rejected_jobs
    /\ call.job.company \notin blacklisted_companies
    /\ call.job.description = Absent
    /\ ~call.ret
    /\ call.reason = ProcessedReason

\* C15: validate_job accepts a candidate only if it passes every rule:
\* id not processed, company not blacklisted, company screening,
\* description bad terms and clearance terms, experience.
C15_AllRulesGate ==
    (call.op = "validate_job" /\ call.ret)
      => /\ call.job.job_id \notin applied_jobs \cup rejected_jobs
         /\ call.job.company \notin blacklisted_companies
         /\ validate_company(cfg, call.job.company_info).ok
         /\ validate_description(cfg, text_or_empty(call.job.description)).ok
         /\ validate_experience(cfg, call.job.experience_required).ok

\* C17: validate_experience(required) rejects exactly when current_experience
\* is set (not -1) and required exceeds current_experience plus 2 for a
\* masters degree; the rejection names the required and the effective years.
C17_ExperienceRule ==
    call.op = "validate_experience"
      => LET effective == cfg.current_experience
                            + (IF cfg.did_masters THEN 2 ELSE 0)
         IN  /\ ~call.ret <=> (cfg.current_experience # 0 - 1
                                 /\ call.required > effective)
             /\ ~call.ret => /\ call.reason.required = call.required
                             /\ call.reason.total = effective
             /\ call.ret => call.reason = NoReason

\* required 6 against 3 years and a masters degree (effective 5): rejected
C17_Witness ==
    /\ call.op = "validate_experience"
    /\ call.required = 6
    /\ cfg.current_experience = 3
    /\ cfg.did_masters
    /\ ~call.ret
    /\ call.reason = ExperienceReason(6, 5)

\* C16: a candidate that is_job_suitable rejects through company screening
\* has its company in blacklisted_companies afterwards; every is_job_suitable
\* call for a candidate of a blacklisted company returns False whatever the
\* candidate's other fields; blacklisted_companies never loses an element.
C16_BlacklistPropagates ==
    [][/\ flt.blacklisted_companies \subseteq flt'.blacklisted_companies
       /\ (call'.op = "is_job_suitable" /\ call'.rule = "company")
            => call'.job.company \in flt'.blacklisted_companies
       /\ (call'.op = "is_job_suitable"
             /\ call'.job.company \in flt.blacklisted_companies)
            => ~call'.ret]_vars

\* a candidate with nothing against it but its company's earlier rejection
C16_Witness ==
    /\ call.op = "is_job_suitable"
    /\ call.rule = "blacklisted"
    /\ ~call.ret
    /\ call.job.company \in flt.blacklisted_companies
    /\ call.job.job_id \notin flt.skipped_jobs
    /\ call.job.company_info = {}
    /\ call.job.description = Absent
    /\ call.job.experience_required = 0

\* C18: company screening rejects exactly the company info that contains a
\* configured bad term and no configured good term (compared in lower case);
\* is_job_suitable, validate_company and screen_company with the AI off all
\* decide so, and an accepted company is not blacklisted.
C18_GoodWordOverride ==
    LET rejects(info) ==
            /\ \E bad \in cfg.about_company_bad_words : contains(bad, info)
            /\ ~\E good \in cfg.about_company_good_words : contains(good, info)
    IN  /\ call.op = "validate_company" => (~call.ret <=> rejects(call.info))
        /\ (call.op = "screen_company" /\ ~cfg.use_AI)
             => (~call.ret <=> rejects(call.info))
        /\ (call.op = "is_job_suitable"
              /\ call.rule \notin {"skipped", "blacklisted"})
             => /\ call.rule = "company" <=> rejects(call.job.company_info)
                /\ ~rejects(call.job.company_info)
                     => call.job.company \notin flt.blacklisted_companies

\* C28: an is_job_suitable call that rejects on a skipped id or a blacklisted
\* company is decided by that rule alone and leaves skipped_jobs and
\* blacklisted_companies as they were; no is_job_suitable call changes
\* skipped_jobs, and one changes blacklisted_companies only by adding the
\* candidate's company on a company-screening rejection.
C28_ShortCircuitFrame ==
    [][call'.op = "is_job_suitable"
         => LET j == call'.job
            IN  /\ flt'.skipped_jobs = flt.skipped_jobs
                /\ j.job_id \in flt.skipped_jobs
                     => (call'.rule = "skipped" /\ ~call'.ret /\ flt' = flt)
                /\ (j.job_id \notin flt.skipped_jobs
                      /\ j.company \in flt.blacklisted_companies)
                     => (call'.rule = "blacklisted" /\ ~call'.ret /\ flt' = flt)
                /\ flt'.blacklisted_companies # flt.blacklisted_companies
                     => /\ call'.rule = "company"
                        /\ flt'.blacklisted_companies
                             = flt.blacklisted_companies \cup {j.company}]_vars

\* a skipped candidate whose company information alone would have had the
\* company blacklisted: rejected as skipped, the company still not blacklisted
C28_Witness ==
    /\ call.op = "is_job_suitable"
    /\ call.rule = "skipped"
    /\ ~call.ret
    /\ call.job.job_id \in flt.skipped_jobs
    /\ call.job.company_info = {"Staffing"}
    /\ cfg.about_company_good_words = {}
    /\ call.job.description = {"Junk"}
    /\ call.job.company \notin flt.blacklisted_companies

\* C26: a reset check (can_apply or get_platform_stats) made when the start
\* of a Monday lies after last_reset_date and not after the day of the check
\* leaves weekly_count at 0, whatever the weekday of the check.
C26_WeeklyResetAfterIdle ==
    [][\A p \in DOMAIN state :
          (/\ lastOp'.op \in {"can_apply", "get_platform_stats"}
           /\ lastOp'.p = p
           /\ \E d \in (state[p].last_reset_date + 1)..DateOf(now) : d % 7 = 0)
            => state'[p].weekly_count = 0]_vars

\* C29: running non-stop with the AI manager, the statistics step of a
\* cycle in which nothing was tracked (application_history is empty) is
\* followed by the wait before the next cycle.
C29_StatsNeverEndRun ==
    [][(pc = "stats" /\ run_non_stop /\ use_AI /\ application_history = {})
         => pc' = "sleep_cycle"]_vars

\* C25: every selection returns the first available platform of
\* platform_order rotated to start just after last_used, the platform of the
\* latest run_platform call, also when an earlier selection found no platform
\* and main slept before selecting again.
C25_RotationStart ==
    [][(pc = "select" /\ pc' # "select")
         => \E env \in {"ok", "popup", "error"} :
               current_platform' =
                 get_next_available_platform(last_used, platform_file, now, env).result]_vars

(***************************************************************************)
(* JobApplier.retry_click (app/modules/jobs/job_applier.py, lines 20-33).  *)
(* rc.ret is what the call gave its caller: "True", "False", or "raised"   *)
(* when an exception left the function.                                    *)
(***************************************************************************)
MaxRetries == 3
MaxDelay == 3

\* what element.click() can do: succeed, raise one of the two exceptions the
\* handler names, or raise another one (NoSuchElementException: the element
\* is not there)
ClickOutcomes == {"ok", "stale", "intercepted", "absent"}
Transient == {"stale", "intercepted"}

\* time.sleep(delay * (2 ** attempt))
backoff(delay, attempt) == delay * (2 ^ attempt)

last_attempt_mut_never(attempt, retries) == attempt = retries

\* if attempt == retries - 1
last_attempt(attempt, retries) == attempt = retries - 1

nonClick == <<now, schedVars, creds, run_non_stop, use_AI, platform_file, pc,
              current_platform, plat, stats, kw, left, yielded,
              application_history, startApplied, nSuccess, appliedIds,
              signalled, limitRaised, lastSel, disk_ok, unsaved, waited, last_used, sigint, screenVars,
              trackVars, appVars>>

\* one pass of the loop body up to the sleep: element.click() and its handler
ClickAttempt ==
    /\ rc.pc = "click"
    /\ rc.attempt < rc.retries
    /\ \E out \in ClickOutcomes :
          rc' = IF out = "ok"
                  THEN [rc EXCEPT !.clicks = @ + 1, !.last = out,
                                  !.pc = "done", !.ret = "True"]
                ELSE IF out \in Transient
                  THEN IF last_attempt(rc.attempt, rc.retries)
                         THEN [rc EXCEPT !.clicks = @ + 1, !.last = out,
                                         !.pc = "done", !.ret = "False"]
                       ELSE [rc EXCEPT !.clicks = @ + 1, !.last = out,
                                       !.slept = Append(@, backoff(rc.delay, rc.attempt)),
                                       !.pc = "relocate"]
                ELSE [rc EXCEPT !.clicks = @ + 1, !.last = out,
                                !.pc = "done", !.ret = "raised"]
    /\ UNCHANGED <<nonClick, nav>>

\* element = self.wait.until(presence_of_element_located(... element.text ...)):
\* the element is found again, or the wait (or reading the text of the stale
\* element) raises
Relocate ==
    /\ rc.pc = "relocate"
    /\ \E found \in BOOLEAN :
          rc' = IF found
                  THEN [rc EXCEPT !.attempt = @ + 1, !.pc = "click"]
                ELSE [rc EXCEPT !.last = "lost", !.pc = "done", !.ret = "raised"]
    /\ UNCHANGED <<nonClick, nav>>

\* range(retries) is used up: return False (line 33)
LoopEnd ==
    /\ rc.pc = "click"
    /\ rc.attempt >= rc.retries
    /\ rc' = [rc EXCEPT !.pc = "done", !.ret = "False"]
    /\ UNCHANGED <<nonClick, nav>>

\* everything but the JobApplier is at rest
ClickOnly ==
    /\ now = StartDay * DayTicks
    /\ SchedIdle
    /\ OrchAtRest
    /\ ScreenIdle
    /\ TrackIdle
    /\ AppIdle

InitRetry ==
    /\ ClickOnly
    /\ \E n \in 0..MaxRetries, d \in 1..MaxDelay :
          rc = [NoRetry EXCEPT !.pc = "click", !.retries = n, !.delay = d]
    /\ nav = NoNav

NextRetry == ClickAttempt \/ Relocate \/ LoopEnd

SpecRetry == InitRetry /\ [][NextRetry]_vars

\* the call is not suspended for ever: a sleep ends and a wait times out
SpecRetryFair == SpecRetry /\ WF_vars(NextRetry)

\* C12: retry_click(element, retries = n, delay = d) makes at most n click
\* attempts, returns True right after the first one that succeeds, sleeps
\* d * 2^k after the failed attempt k for k = 0 .. n-2 and not after the
\* last, returns False when all n attempts failed on a stale or intercepted
\* element, and always comes to an end.
C12_RetrySchedule ==
    /\ [](/\ rc.clicks <= rc.retries
          /\ rc.last = "ok" <=> rc.ret = "True"
          /\ rc.ret = "True" => /\ rc.pc = "done"
                                /\ rc.clicks = rc.attempt + 1
                                /\ Len(rc.slept) = rc.attempt
          /\ \A k \in 1..Len(rc.slept) : rc.slept[k] = rc.delay * (2 ^ (k - 1))
          /\ Len(rc.slept) <= rc.clicks
          /\ rc.retries > 0 => Len(rc.slept) <= rc.retries - 1
          /\ rc.pc = "relocate" => Len(rc.slept) = rc.clicks
          /\ (rc.pc = "done" /\ rc.last \in Transient)
               => /\ rc.clicks = rc.retries
                  /\ Len(rc.slept) = rc.retries - 1
                  /\ rc.ret = "False")
    /\ <>(rc.pc = "done")

\* three attempts, all on a stale or intercepted element, with delay 2:
\* sleeps of 2 and 4, none after the third, and False
C12_Witness ==
    /\ rc.pc = "done"
    /\ rc.retries = 3
    /\ rc.delay = 2
    /\ rc.clicks = 3
    /\ rc.last \in Transient
    /\ rc.slept = <<2, 4>>
    /\ rc.ret = "False"

\* C14: when a click attempt fails on an element that is not there, or the
\* element is not found again between two attempts, retry_click stops (no
\* further click, no further sleep) and returns False.
C14_ShortCircuit ==
    rc.last \in {"absent", "lost"} => rc.pc = "done" /\ rc.ret = "False"

(***************************************************************************)
(* JobApplier.navigate_next and safe_click (job_applier.py, lines 35-61    *)
(* and 88-106).  nav.trail lists the click strategies invoked, in order:   *)
(* <<button, strategy, "ok" or "raised">>.                                 *)
(***************************************************************************)
buttons == <<"Next", "Review", "Submit application", "Done">>
NumStrategies == Len(<<"element.click", "actions click", "script click">>)

\* navigate_next after safe_click(buttons[b]) returned False: the next
\* button, or the ENTER fallback after the last
after_false(nv) ==
    IF nv.b < Len(buttons)
      THEN [nv EXCEPT !.b = @ + 1, !.strategy = 1, !.pc = "locate"]
    ELSE [nv EXCEPT !.pc = "fallback"]

strategy_mut_no_break(nv, out) ==
    LET tried == [nv EXCEPT !.trail = Append(@, <<nv.b, nv.strategy, out>>)]
    IN  IF out = "ok" THEN after_false(tried)
        ELSE IF nv.strategy < NumStrategies
          THEN [tried EXCEPT !.strategy = @ + 1]
        ELSE after_false(tried)

\* one click strategy of safe_click and what follows from how it ended:
\* return True and break, the next strategy, or return False
strategy_result(nv, out) ==
    LET tried == [nv EXCEPT !.trail = Append(@, <<nv.b, nv.strategy, out>>)]
    IN  IF out = "ok" THEN [tried EXCEPT !.pc = "done", !.ret = "True"]
        ELSE IF nv.strategy < NumStrategies
          THEN [tried EXCEPT !.strategy = @ + 1]
        ELSE after_false(tried)

\* safe_click: wait for the element with the button's text; a timeout is
\* caught and safe_click returns False
Locate ==
    /\ nav.pc = "locate"
    /\ nav' = IF buttons[nav.b] \in nav.page
                THEN [nav EXCEPT !.pc = "scroll"]
              ELSE after_false(nav)
    /\ UNCHANGED <<nonClick, rc>>

\* scrollIntoView: an exception other than the two safe_click catches leaves
\* safe_click and navigate_next
Scroll ==
    /\ nav.pc = "scroll"
    /\ \E ok \in BOOLEAN :
          nav' = IF ok THEN [nav EXCEPT !.pc = "strategy"]
                 ELSE [nav EXCEPT !.pc = "done", !.ret = "raised"]
    /\ UNCHANGED <<nonClick, rc>>

Strategy ==
    /\ nav.pc = "strategy"
    /\ \E out \in {"ok", "raised"} : nav' = strategy_result(nav, out)
    /\ UNCHANGED <<nonClick, rc>>

\* self.actions.send_keys(Keys.ENTER): the module never imports Keys, the
\* NameError is swallowed by the bare except and no key is sent
Fallback ==
    /\ nav.pc = "fallback"
    /\ nav' = [nav EXCEPT !.pc = "done", !.ret = "False"]
    /\ UNCHANGED <<nonClick, rc>>

\* a call of navigate_next on a page showing any of the four buttons
InitNavigate ==
    /\ ClickOnly
    /\ rc = NoRetry
    /\ \E page \in SUBSET {buttons[i] : i \in 1..Len(buttons)} :
          nav = [NoNav EXCEPT !.pc = "locate", !.page = page]

NextNavigate == Locate \/ Scroll \/ Strategy \/ Fallback

SpecNavigate == InitNavigate /\ [][NextNavigate]_vars

\* C13: one navigate_next call clicks at most one of Next, Review, Submit
\* application, Done (the first that succeeds, tried in that order), and
\* safe_click invokes a later click strategy only when every earlier one
\* raised: no call issues two successful clicks.
C13_NoDoubleSubmit ==
    LET t == nav.trail
        oks == {i \in 1..Len(t) : t[i][3] = "ok"}
    IN  /\ Cardinality(oks) <= 1
        /\ \A i \in oks : i = Len(t) /\ nav.pc = "done" /\ nav.ret = "True"
        /\ \A i \in 1..Len(t) :
              /\ t[i][2] > 1 => /\ i > 1
                                /\ t[i - 1] = <<t[i][1], t[i][2] - 1, "raised">>
              /\ \A j \in 1..Len(t) : j < i => t[j][1] <= t[i][1]

\* Next is not on the page, Review's first two strategies raise and the
\* third clicks: the call ends there, Submit application is never touched
C13_Witness ==
    /\ nav.pc = "done"
    /\ nav.ret = "True"
    /\ nav.page = {"Review", "Submit application"}
    /\ nav.trail = <<<<2, 1, "raised">>, <<2, 2, "raised">>, <<2, 3, "ok">>>>

(***************************************************************************)
(* Loading the scheduler's state: any configured set of platforms against  *)
(* any state file an earlier process can have left.                        *)
(***************************************************************************)
\* before ApplicationScheduler is constructed: the limits the constructor
\* will be given, and a state file that is missing, unreadable, or holds the
\* records of the platforms an earlier process was configured with
InitLoad ==
    /\ now = StartDay * DayTicks
    /\ OrchIdle
    /\ \E L \in SUBSET PlatformNames :
          /\ L # {}
          /\ platform_limits = [q \in L |-> DailyLimit]
          /\ \E F \in SUBSET L :
                state_file \in {MissingFile, CorruptFile,
                                OkFile([q \in F |->
                                    [daily_count |-> 0, weekly_count |-> 0,
                                     last_apply_time |-> None,
                                     last_reset_date |-> StartDay]])}
    /\ state = EmptyState
    /\ proc = "down"
    /\ lastOp = NoOp
    /\ checkedDay = [p \in PlatformNames |-> None]
    /\ recAt = [p \in PlatformNames |-> None]

NextLoad ==
    \/ Advance
    \/ Construct
    \/ \E p \in PlatformNames : CanApply(p)

SpecLoad == InitLoad /\ [][NextLoad]_vars

\* C19: once ApplicationScheduler is constructed, whatever the state file
\* was, every platform of platform_limits has a state record (a zeroed one
\* if the file had none for it), so that can_apply can return True for it.
C19_LoadYieldsRecords ==
    proc = "up" => \A p \in DOMAIN platform_limits : p \in DOMAIN state

(***************************************************************************)
(* The orchestrator on a disk that can stop taking writes.                 *)
(***************************************************************************)
\* open(state_file, 'w') starts, or stops, raising
DiskChange ==
    /\ pc \in {"select", "login", "page_top"}
    /\ disk_ok' = ~disk_ok
    /\ UNCHANGED <<now, schedVars, creds, run_non_stop, use_AI, platform_file, pc,
                   current_platform, plat, stats, kw, left, yielded,
                   application_history, startApplied, nSuccess, appliedIds,
                   signalled, limitRaised, lastSel, unsaved, waited, last_used, sigint, otherVars>>

\* main running non-stop on one configured platform, from any of the state
\* files a run can start from
InitDisk ==
    /\ now = StartDay * DayTicks
    /\ SchedIdle
    /\ OtherIdle
    /\ DiskIdle
    /\ \E q \in Platforms :
          /\ creds = [p \in Platforms |-> p = q]
          /\ \E f \in StartFiles(q) :
                platform_file = [p \in Platforms |->
                                    IF p = q THEN f ELSE NoPlatformFile]
    /\ run_non_stop = TRUE
    /\ use_AI = FALSE
    /\ pc = "select"
    /\ current_platform = NoPlatform
    /\ plat = NewPlat
    /\ stats = ZeroStats
    /\ kw = 1
    /\ left = 0
    /\ yielded = 0
    /\ application_history = {}
    /\ startApplied = 0
    /\ nSuccess = 0
    /\ appliedIds = {}
    /\ signalled = [p \in Platforms |-> FALSE]
    /\ limitRaised = FALSE
    /\ lastSel = NoSel
    /\ waited = 0
    /\ last_used = NoPlatform
    /\ sigint = "none"

NextDisk == NextOrch \/ DiskChange

SpecDisk == InitDisk /\ [][NextDisk]_vars

\* C20: after a save of a platform's counter has failed, every later quota
\* decision of the process on that platform works on a counter at least as
\* large as the one that could not be written, never on the older value
\* still in the file.
C20_MemoryAuthoritative ==
    pc \in {"page_top", "cand", "next_page"}
      => plat.jobs_applied >= unsaved[current_platform]

(***************************************************************************)
(* MetricsTracker (app/services/tracking/metrics.py): the applied-history  *)
(* file is a sequence of rows as csv.reader yields them, a blank line      *)
(* being the empty row.                                                    *)
(***************************************************************************)
MaxRows == 3

TrackIds == {"j1", "j2"}
HeaderRow == <<"Job ID", "Title">>
BlankRow == <<>>
\* the rows a history file can hold: the header, a full record, a record
\* cut short after its first column, a blank line
RowValues == {HeaderRow, BlankRow} \cup {<<id, "title">> : id \in TrackIds}
                \cup {<<id>> : id \in TrackIds}

RECURSIVE SeqsUpTo(_, _)
SeqsUpTo(S, n) ==
    IF n = 0 THEN {<<>>}
    ELSE LET shorter == SeqsUpTo(S, n - 1)
         IN  shorter \cup {Append(q, x) : q \in {r \in shorter : Len(r) = n - 1},
                                          x \in S}

\* _load_applied_jobs: only FileNotFoundError is caught; next(reader) on a
\* file without lines raises StopIteration, row[0] on a blank line raises
\* IndexError, undecodable bytes raise UnicodeDecodeError
load_applied_jobs(f) ==
    IF f.kind = "missing"
      THEN [up |-> "up", applied_jobs |-> {}, error |-> "none"]
    ELSE IF f.kind = "undecodable"
      THEN [up |-> "raised", applied_jobs |-> {}, error |-> "UnicodeDecodeError"]
    ELSE IF Len(f.rows) = 0
      THEN [up |-> "raised", applied_jobs |-> {}, error |-> "StopIteration"]
    ELSE IF \E i \in 2..Len(f.rows) : f.rows[i] = BlankRow
      THEN [up |-> "raised", applied_jobs |-> {}, error |-> "IndexError"]
    ELSE [up |-> "up", applied_jobs |-> {f.rows[i][1] : i \in 2..Len(f.rows)},
          error |-> "none"]

\* _write_application_record: append, with the header first if the file did
\* not exist
write_application_record(f, id) ==
    IF f.kind = "missing"
      THEN [kind |-> "ok", rows |-> <<HeaderRow, <<id, "title">>>>]
    ELSE IF f.kind = "ok"
      THEN [f EXCEPT !.rows = Append(@, <<id, "title">>)]
    ELSE f

nonTrack == <<now, schedVars, creds, run_non_stop, use_AI, platform_file, pc,
              current_platform, plat, stats, kw, left, yielded,
              application_history, startApplied, nSuccess, appliedIds,
              signalled, limitRaised, lastSel, disk_ok, unsaved, waited, last_used, sigint, screenVars,
              clickVars, appVars>>

\* MetricsTracker(): __init__ up to and including _load_applied_jobs
ConstructTracker ==
    /\ tracker' = load_applied_jobs(applied_file)
    /\ UNCHANGED <<nonTrack, applied_file>>

\* record_application(job_details, application_type)
TrackApplication ==
    /\ tracker.up = "up"
    /\ Len(applied_file.rows) <= MaxRows
    /\ \E id \in TrackIds :
          /\ tracker' = [tracker EXCEPT !.applied_jobs = @ \cup {id}]
          /\ applied_file' = write_application_record(applied_file, id)
    /\ UNCHANGED nonTrack

\* before the process starts: any history file
InitTracker ==
    /\ now = StartDay * DayTicks
    /\ SchedIdle
    /\ OrchAtRest
    /\ ScreenIdle
    /\ ClickIdle
    /\ AppIdle
    /\ applied_file \in {NoFile, [kind |-> "undecodable", rows |-> <<>>]}
                          \cup {[kind |-> "ok", rows |-> r] :
                                   r \in SeqsUpTo(RowValues, MaxRows)}
    /\ tracker = NoTracker

NextTracker == ConstructTracker \/ TrackApplication

SpecTracker == InitTracker /\ [][NextTracker]_vars

\* C21: constructing MetricsTracker never raises because of what the
\* applied-history file holds: a missing, empty, blank-lined or malformed
\* file ends in a tracker with the ids that could be read, or none.
C21_HistoryNotFatal == tracker.up # "raised"

(***************************************************************************)
(* main.py and the app's ApplicationScheduler (app/core/scheduler.py).     *)
(* app.error is what ended the run early ("none" if nothing did) and       *)
(* app.exit_status the status the process exited with (-1 while it runs).  *)
(***************************************************************************)
MaxRuns == 4

date_options == <<"Any time", "Past month", "Past week", "Past 24 hours">>

\* list.index(x), counting from 0
py_index(seq, x) == (CHOOSE i \in 1..Len(seq) : seq[i] = x) - 1

\* list[i] with Python's negative indices
py_item(seq, i) == IF i < 0 THEN seq[Len(seq) + i + 1] ELSE seq[i + 1]

cycle_mut_always_wraps(date_posted, stop_at_24hr) ==
    LET current_index == py_index(date_options, date_posted)
    IN  py_item(date_options,
                IF current_index + 1 >= Len(date_options) THEN 0
                ELSE current_index + 1)

\* _cycle_date_posted: the new config['date_posted']
cycle_date_posted(date_posted, stop_at_24hr) ==
    LET current_index == py_index(date_options, date_posted)
        next_index ==
            IF stop_at_24hr
              THEN IF current_index + 1 < Len(date_options)
                     THEN current_index + 1 ELSE 0 - 1
            ELSE IF current_index + 1 >= Len(date_options)
                   THEN 0 ELSE current_index + 1
    IN  py_item(date_options, next_index)

\* _alternate_sort_by
alternate_sort_by(sort_by) ==
    IF sort_by = "Most relevant" THEN "Most recent" ELSE "Most relevant"

nonApp == <<now, schedVars, creds, run_non_stop, use_AI, platform_file, pc,
            current_platform, plat, stats, kw, left, yielded,
            application_history, startApplied, nSuccess, appliedIds,
            signalled, limitRaised, lastSel, disk_ok, unsaved, waited, last_used, sigint, screenVars,
            clickVars, trackVars>>

\* main: setup_application() returns the scheduler, or raises (main's
\* except Exception: sys.exit(1))
Setup ==
    /\ app.pc = "setup"
    /\ \E ok \in BOOLEAN :
          app' = IF ok THEN [app EXCEPT !.pc = "init_browser"]
                 ELSE [app EXCEPT !.pc = "exited", !.error = "setup",
                                  !.exit_status = 1]
    /\ UNCHANGED nonApp

\* run: _initialize_browser; its exception is re-raised and caught by run's
\* except Exception, which only prints it
InitializeBrowser ==
    /\ app.pc = "init_browser"
    /\ \E ok \in BOOLEAN :
          app' = IF ok THEN [app EXCEPT !.pc = "cycle", !.total_runs = 1]
                 ELSE [app EXCEPT !.pc = "cleanup", !.error = "browser"]
    /\ UNCHANGED nonApp

\* one pass of the while loop up to _handle_cycle_options: apply_to_jobs
\* returns, raises an exception (caught by run) or is interrupted by the
\* operator (KeyboardInterrupt passes run's except Exception)
Cycle ==
    /\ app.pc = "cycle"
    /\ \E out \in {"ok", "error", "interrupt"} :
          app' = IF out = "ok"
                   THEN IF app.run_non_stop THEN [app EXCEPT !.pc = "options"]
                        ELSE [app EXCEPT !.pc = "cleanup"]
                 ELSE IF out = "error"
                   THEN [app EXCEPT !.pc = "cleanup", !.error = "cycle"]
                 ELSE [app EXCEPT !.pc = "cleanup", !.error = "interrupt"]
    /\ UNCHANGED nonApp

\* _handle_cycle_options
HandleCycleOptions ==
    /\ app.pc = "options"
    /\ app' = [app EXCEPT
                 !.date_posted = IF app.cycle_date_posted
                                   THEN cycle_date_posted(@, app.stop_date_cycle_at_24hr)
                                   ELSE @,
                 !.sort_by = IF app.alternate_sortby THEN alternate_sort_by(@)
                             ELSE @,
                 !.pc = "sleep"]
    /\ UNCHANGED nonApp

\* _sleep_between_cycles and total_runs += 1, or the operator's interrupt
\* during the sleep
SleepBetweenCycles ==
    /\ app.pc = "sleep"
    /\ \E interrupted \in BOOLEAN :
          IF interrupted
            THEN app' = [app EXCEPT !.pc = "cleanup", !.error = "interrupt"]
            ELSE /\ app.total_runs < MaxRuns
                 /\ app' = [app EXCEPT !.pc = "cycle", !.total_runs = @ + 1]
    /\ UNCHANGED nonApp

\* run's finally: _cleanup, then back in main: an interrupt reaches
\* except KeyboardInterrupt (sys.exit(0)); an exception of _cleanup reaches
\* except Exception (sys.exit(1)); otherwise main returns and the status is 0
Cleanup ==
    /\ app.pc = "cleanup"
    /\ \E ok \in BOOLEAN :
          app' = IF ok THEN [app EXCEPT !.pc = "exited", !.exit_status = 0]
                 ELSE [app EXCEPT !.pc = "exited", !.exit_status = 1,
                                  !.error = IF @ = "none" THEN "cleanup" ELSE @]
    /\ UNCHANGED nonApp

\* python main.py, under any setting of the cycle options
InitApp ==
    /\ now = StartDay * DayTicks
    /\ SchedIdle
    /\ OrchAtRest
    /\ ScreenIdle
    /\ ClickIdle
    /\ TrackIdle
    /\ \E d \in {date_options[i] : i \in 1..Len(date_options)},
          s \in {"Most recent", "Most relevant"},
          flags \in [1..4 -> BOOLEAN] :
          app = [NoApp EXCEPT !.pc = "setup", !.start_date = d,
                              !.date_posted = d, !.sort_by = s,
                              !.run_non_stop = flags[1],
                              !.cycle_date_posted = flags[2],
                              !.stop_date_cycle_at_24hr = flags[3],
                              !.alternate_sortby = flags[4]]

NextApp ==
    \/ Setup
    \/ InitializeBrowser
    \/ Cycle
    \/ HandleCycleOptions
    \/ SleepBetweenCycles
    \/ Cleanup

SpecApp == InitApp /\ [][NextApp]_vars

\* C24: the process exits with status zero only after normal exhaustion or
\* an operator's stop; a run aborted by an internal error (browser
\* initialisation, a cycle raising) exits with a non-zero status.
C24_ExitStatus ==
    (app.pc = "exited" /\ app.exit_status = 0)
      => app.error \in {"none", "interrupt"}

\* C30: every _cycle_date_posted call moves date_posted one step along
\* Any time, Past month, Past week, Past 24 hours; with
\* stop_date_cycle_at_24hr it stays at Past 24 hours once there, without it
\* Past 24 hours is followed by Any time.
C30_DateCycle ==
    [][(app.pc = "options" /\ app'.pc = "sleep" /\ app.cycle_date_posted)
         => LET pos(d) == CHOOSE i \in 1..4 : date_options[i] = d
                before == pos(app.date_posted)
                after == pos(app'.date_posted)
            IN  IF before < 4 THEN after = before + 1
                ELSE IF app.stop_date_cycle_at_24hr THEN after = 4
                ELSE after = 1]_vars

\* started at Past week with the stop option: Past 24 hours after the first
\* cycle and still Past 24 hours after the second and third
C30_Witness ==
    /\ app.pc = "sleep"
    /\ app.cycle_date_posted
    /\ app.stop_date_cycle_at_24hr
    /\ app.start_date = "Past week"
    /\ app.total_runs = 3
    /\ app.date_posted = "Past 24 hours"

(***************************************************************************)
(* The orchestrator on a clock observed twice a day: consecutive runs of   *)
(* one platform less than a day apart, on the same date or across          *)
(* midnight.                                                               *)
(***************************************************************************)
\* the clock is observed at the start and MaxHalfDays half days after it
MaxHalfDays == 3

HalfDayTimes ==
    {StartDay * DayTicks + k * (DayTicks \div 2) : k \in 0..MaxHalfDays}

\* the clock moves on between two calls of main's loop
AdvanceHalfDay ==
    /\ pc \in {"select", "login"}
    /\ \E t \in HalfDayTimes : t > now /\ now' = t
    /\ UNCHANGED <<schedVars, orchVars>>

NextDay == NextOrch \/ AdvanceHalfDay

SpecDay == InitDisk /\ [][NextDay]_vars

\* C27: the JobPlatform that run_platform constructs from a readable state
\* file starts with jobs_applied = 0 when the date is later than the date in
\* the file's last_reset, and with the file's jobs_applied otherwise. (The
\* counter's last reset is never later than the last save of the file, so a
\* file last written on an earlier date holds a count of an earlier date.)
C27_DailyResetByDate ==
    [][(pc = "login" /\ pc' # "login"
          /\ platform_file[current_platform].kind = "ok")
         => LET f == platform_file[current_platform]
            IN  plat'.jobs_applied =
                  IF DateOf(now) > DateOf(f.last_reset) THEN 0
                  ELSE f.jobs_applied]_vars

(***************************************************************************)
(* main run to its end: no platform or two platforms configured, their     *)
(* state files left by an earlier process; every step of main's loop is    *)
(* taken in turn.                                                          *)
(***************************************************************************)
InitTerm ==
    /\ InitOrch
    /\ {p \in Platforms : creds[p]} \in {{}, {"Indeed", "Dice"}}
    /\ \A p \in Platforms : creds[p] => platform_file[p].kind = "ok"

\* main is never suspended for ever between two steps of its loop
SpecTermFair == InitTerm /\ [][NextOrch]_vars /\ WF_vars(NextOrch)

intConf == <<creds, run_non_stop, use_AI, disk_ok, otherVars>>

\* open(state_file, 'w') has truncated the file and json.dump did not run
TruncatedFile == [kind |-> "corrupt", jobs_applied |-> 0, last_reset |-> 0]

\* get_job_listings interrupted while a card is read: the bare except of
\* line 138 continues with the next card, and the page's other jobs are
\* returned to run_platform
InterruptedListing ==
    /\ pc = "page_top"
    /\ ~limit_hit(plat, PLATFORMS_daily_limit(current_platform))
    /\ sigint' = "delivered"
    /\ \E n \in 0..MaxPageLen :
          /\ yielded + n <= MaxCandidates
          /\ yielded' = yielded + n
          /\ IF n = 0
               THEN AfterBreak
               ELSE /\ left' = n
                    /\ pc' = "cand"
                    /\ UNCHANGED <<plat, platform_file, unsaved, kw>>
    /\ UNCHANGED <<now, schedVars, intConf, current_platform, stats,
                   application_history, histVars, lastSel, waited, last_used>>

\* get_next_page interrupted: the bare except of line 237 returns False and
\* run_platform breaks out of the page loop
InterruptedNextPage ==
    /\ pc = "next_page"
    /\ sigint' = "delivered"
    /\ AfterBreak
    /\ UNCHANGED <<now, schedVars, intConf, current_platform, stats, yielded,
                   application_history, histVars, lastSel, waited, last_used>>

\* the last search term is done and _save_platform_state, called from
\* run_platform's finally, is interrupted before or after open() truncated
\* the file: the bare except of line 59 passes and run_platform returns
InterruptedSave ==
    /\ pc \in {"page_top", "next_page"}
    /\ kw = NumKeywords
    /\ ~limit_hit(plat, PLATFORMS_daily_limit(current_platform))
    /\ sigint' = "delivered"
    /\ \E f \in {platform_file[current_platform], TruncatedFile} :
          platform_file' = [platform_file EXCEPT ![current_platform] = f]
    /\ unsaved' = [unsaved EXCEPT ![current_platform] = plat.jobs_applied]
    /\ pc' = "stats"
    /\ left' = 0
    /\ UNCHANGED <<now, schedVars, intConf, current_platform, plat, stats, kw,
                   yielded, application_history, histVars, lastSel, waited,
                   last_used>>

\* run_platform interrupted anywhere else in its try (a page load, a sleep,
\* apply_to_job): finally saves the state, the interrupt passes main's
\* "except Exception", main's finally runs and the process ends
InterruptedRun ==
    /\ pc \in {"page_top", "cand", "next_page"}
    /\ sigint' = "delivered"
    /\ platform_file' = [platform_file EXCEPT
                            ![current_platform] = write_platform_file(@, plat, now)]
    /\ unsaved' = [unsaved EXCEPT ![current_platform] =
                      IF disk_ok THEN 0 ELSE plat.jobs_applied]
    /\ pc' = "interrupted"
    /\ left' = 0
    /\ UNCHANGED <<now, schedVars, intConf, current_platform, plat, stats, kw,
                   yielded, application_history, histVars, lastSel, waited,
                   last_used>>

\* main on Indeed alone, from any of the state files a run can start from
InitInterrupt ==
    /\ now = StartDay * DayTicks
    /\ SchedIdle
    /\ OtherIdle
    /\ DiskIdle
    /\ creds = [p \in Platforms |-> p = "Indeed"]
    /\ \E f \in StartFiles("Indeed") :
          platform_file = [p \in Platforms |->
                              IF p = "Indeed" THEN f ELSE NoPlatformFile]
    /\ run_non_stop \in BOOLEAN
    /\ use_AI = FALSE
    /\ pc = "select"
    /\ current_platform = NoPlatform
    /\ plat = NewPlat
    /\ stats = ZeroStats
    /\ kw = 1
    /\ left = 0
    /\ yielded = 0
    /\ application_history = {}
    /\ startApplied = 0
    /\ nSuccess = 0
    /\ appliedIds = {}
    /\ signalled = [p \in Platforms |-> FALSE]
    /\ limitRaised = FALSE
    /\ lastSel = NoSel
    /\ waited = 0
    /\ last_used = NoPlatform
    /\ sigint = "none"

NextInterrupt ==
    \/ NextOrch
    \/ InterruptedListing
    \/ InterruptedNextPage
    \/ InterruptedSave
    \/ InterruptedRun

SpecInterrupt == InitInterrupt /\ [][NextInterrupt]_vars

\* C22: once a KeyboardInterrupt was raised in a run, and the call it
\* interrupted is over, the process is at its end or on its way out of
\* run_platform with the platform's counter in the state file: it is not at
\* a next candidate, page or search term, not in a wait and not selecting
\* for a next cycle.
C22_CancellationHonoured ==
    sigint = "delivered"
      => /\ pc \in {"interrupted", "stats", "terminal", "main_error"}
         /\ pc \in {"interrupted", "stats"} => PersistedCount = plat.jobs_applied

====
